---- MODULE Spec2Model ----
(***************************************************************************)
(* The context of LibNoPoll (nopoll_ctx.c): its reference count, its       *)
(* connection id counter and its connection registry, a hand-grown array   *)
(* of connection pointers in which a NULL entry is a free slot.            *)
(*                                                                         *)
(* A connection is a number 1..MaxConns; the NULL pointer is 0.  The C     *)
(* array conn_list[0 .. conn_length-1] is the sequence conn_list, so the   *)
(* C slot `iterator' is conn_list[iterator + 1].  list_alloc tells         *)
(* whether the pointer ctx->conn_list is a block (TRUE) or NULL (FALSE).   *)
(*                                                                         *)
(* Reading through a NULL pointer is a fault: on the hosted platforms the  *)
(* library builds for, page zero is unmapped and the load raises SIGSEGV,  *)
(* which ends the process.  fault records it and no call follows it.       *)
(***************************************************************************)
EXTENDS Integers, Sequences, FiniteSets

\* Number of connection objects the application creates.
MaxConns == 11
\* Cap on the reference count the application lets the context reach.
MaxRefs == 2
\* Number of unregister calls the application makes.
MaxUnregs == 2
\* The registry grows "10 by 10".
GrowBy == 10
\* nopoll_ctx_new: result->refs = 1 and result->conn_id = 1.
InitialRefs == 1
InitialConnId == 1

NULL == 0
Conns == 1..MaxConns
\* A connection object that belongs to another context.
Foreign == MaxConns + 1
\* The two threads of the concurrent runs.
Threads == {1, 2}

VARIABLES
    refs,         \* ctx->refs
    conn_id,      \* ctx->conn_id: the next id to hand out
    conn_length,  \* ctx->conn_length: capacity of conn_list
    conn_list,    \* ctx->conn_list: contents of the block (<<>> when NULL)
    list_alloc,   \* ctx->conn_list != NULL
    conn_num,     \* ctx->conn_num: connections registered
    id,           \* conn->id of every connection object
    freed,        \* nopoll_free (ctx) has run
    fault,        \* the process died on a NULL dereference
    nconn,        \* connection objects handed to register so far
    nunreg,       \* unregister calls made so far
    op,           \* the last call: its name and, for foreach, its handler
    visited,      \* connections the last foreach handed to its handler
    result,       \* what the last foreach returned
    tracked,      \* history: registered and not since unregistered
    holders,      \* history: 1 + acquire calls - release calls
    nfree,        \* history: how many times the context was freed
    thr,          \* per thread: where it is in the call it is running
    nrereg        \* register calls made with a connection already registered

vars == <<refs, conn_id, conn_length, conn_list, list_alloc, conn_num, id,
          freed, fault, nconn, nunreg, op, visited, result, tracked, holders,
          nfree, thr, nrereg>>

\* What the calls made by one thread, start to end, leave alone.
stepwise == <<thr, nrereg>>

\* The registry part of the context and the connections' id fields, as one
\* value the handlers below transform.
Mem == [conn_id |-> conn_id, conn_length |-> conn_length,
        conn_list |-> conn_list, list_alloc |-> list_alloc,
        conn_num |-> conn_num, id |-> id, fault |-> fault]

Call(name, handler) == [name |-> name, handler |-> handler]

\* A thread that is in no call: pc is the statement it is at, conn the
\* connection it registers, iterator and tmp its locals; calls, grows and
\* oom count the invocations of register, the growths and the failed
\* allocations of its current call.
Idle == [pc |-> "idle", conn |-> NULL, iterator |-> 0, tmp |-> 0,
         calls |-> 0, grows |-> 0, oom |-> FALSE, num0 |-> 0,
         own |-> 0, uaf |-> FALSE]

----------------------------------------------------------------------------
\* nopoll_ctx_new.  nopoll_new hands out zeroed memory: the fields the
\* function does not set (conn_list, conn_num) start as NULL and 0, and so
\* does the id of a connection no context has registered yet.

Init ==
    /\ refs = InitialRefs
    /\ conn_id = InitialConnId
    /\ conn_length = 0
    /\ conn_list = <<>>
    /\ list_alloc = FALSE
    /\ conn_num = 0
    /\ id = [c \in Conns \cup {Foreign} |-> 0]
    /\ freed = FALSE
    /\ fault = FALSE
    /\ nconn = 0
    /\ nunreg = 0
    /\ op = Call("new", {})
    /\ visited = <<>>
    /\ result = NULL
    /\ tracked = {}
    /\ holders = 1
    /\ nfree = 0
    /\ thr = [t \in Threads |-> Idle]
    /\ nrereg = 0

----------------------------------------------------------------------------
\* nopoll_ctx_ref, nopoll_ctx_unref

\* ctx->refs++
RefsAfterRef(r) == r + 1

\* ctx->refs--
RefsAfterUnref(r) == r - 1

\* A wrong unref that releases the context while a reference is still held.
UnrefReleasesEarly(r) == r <= 1

\* "if (ctx->refs != 0) return;": the rest of unref runs when the count it
\* has just decremented is zero.
UnrefReleases(r) == r = 0

nopoll_ctx_ref ==
    /\ ~freed /\ ~fault
    /\ refs < MaxRefs
    /\ refs' = RefsAfterRef(refs)
    /\ holders' = holders + 1
    /\ op' = Call("ref", {})
    /\ visited' = <<>> /\ result' = NULL
    /\ UNCHANGED <<conn_id, conn_length, conn_list, list_alloc, conn_num, id,
                   freed, fault, nconn, nunreg, tracked, nfree>>
    /\ UNCHANGED stepwise

nopoll_ctx_unref ==
    /\ ~freed /\ ~fault
    /\ refs' = RefsAfterUnref(refs)
    /\ holders' = holders - 1
    /\ op' = Call("unref", {})
    /\ visited' = <<>> /\ result' = NULL
    /\ IF UnrefReleases(refs')
       THEN \* nopoll_free (ctx->conn_list); ctx->conn_length = 0; nopoll_free (ctx)
            /\ conn_list' = <<>>
            /\ list_alloc' = FALSE
            /\ conn_length' = 0
            /\ freed' = TRUE
            /\ nfree' = nfree + 1
       ELSE UNCHANGED <<conn_list, list_alloc, conn_length, freed, nfree>>
    /\ UNCHANGED <<conn_id, conn_num, id, fault, nconn, nunreg, tracked>>
    /\ UNCHANGED stepwise

----------------------------------------------------------------------------
\* nopoll_ctx_register_conn

\* A counter that hands the same id out again.
ConnIdStuck(n) == n

\* ctx->conn_id ++
NextConnId(n) == n + 1

\* conn->id = ctx->conn_id; ctx->conn_id ++;
AssignId(m, conn) ==
    [m EXCEPT !.id[conn] = m.conn_id, !.conn_id = NextConnId(m.conn_id)]

RECURSIVE FindFreeLast(_, _)
\* A scan that takes the last free slot instead of the first one.
FindFreeLast(m, iterator) ==
    LET top == m.conn_length - 1 - iterator
    IN  IF iterator >= m.conn_length THEN m.conn_length
        ELSE IF m.conn_list[top + 1] = NULL THEN top
        ELSE FindFreeLast(m, iterator + 1)

RECURSIVE FindFree(_, _)
\* The while loop of register: the first iterator, from the one given, with
\* ctx->conn_list[iterator] == 0; conn_length when the loop runs out.
FindFree(m, iterator) ==
    IF iterator >= m.conn_length THEN m.conn_length
    ELSE IF m.conn_list[iterator + 1] = NULL THEN iterator
    ELSE FindFree(m, iterator + 1)

\* ctx->conn_list[iterator] = conn; ctx->conn_num++; return;
Place(m, iterator, conn) ==
    [m EXCEPT !.conn_list[iterator + 1] = conn, !.conn_num = @ + 1]

\* What a block holds where nothing was written yet.
Uninit == -1

\* A growth that takes a new block and forgets to copy the old entries.
ReallocFresh(list, n) == [i \in 1..n |-> Uninit]

\* nopoll_realloc (list, n entries), when it succeeds: the old entries are
\* kept and the added ones hold whatever the block held.
Realloc(list, n) == [i \in 1..n |-> IF i <= Len(list) THEN list[i] ELSE Uninit]

\* A growth that leaves the new positions as the block came.
ClearNothing(list, length) == list

\* "clear new positions": the loop from conn_length - 10 to conn_length.
ClearNew(list, length) ==
    [i \in 1..Len(list) |->
        IF i - 1 >= length - GrowBy /\ i - 1 < length THEN NULL ELSE list[i]]

RECURSIVE nopoll_ctx_register_conn(_, _, _)

\* A register that grows the table by one entry more than it should.
RegisterGrowsOdd(m, conn, allocOK) ==
    LET m1 == AssignId(m, conn)
        free == FindFree(m1, 0)
        m2 == [m1 EXCEPT !.conn_length = @ + GrowBy + 1]
    IN  IF m1.conn_length > 0 /\ ~m1.list_alloc
        THEN [m1 EXCEPT !.fault = TRUE]
        ELSE IF free < m1.conn_length
        THEN Place(m1, free, conn)
        ELSE IF ~allocOK
        THEN [m2 EXCEPT !.conn_list = <<>>, !.list_alloc = FALSE]
        ELSE nopoll_ctx_register_conn(
                 [m2 EXCEPT !.conn_list =
                                [i \in 1..m2.conn_length |->
                                    IF i <= Len(m1.conn_list)
                                    THEN m1.conn_list[i] ELSE NULL],
                            !.list_alloc = TRUE],
                 conn, allocOK)

\* A register that counts the connection although the growth was refused.
RegisterCountsRefused(m, conn, allocOK) ==
    LET m1 == AssignId(m, conn)
        free == FindFree(m1, 0)
        m2 == [m1 EXCEPT !.conn_length = @ + GrowBy]
    IN  IF m1.conn_length > 0 /\ ~m1.list_alloc
        THEN [m1 EXCEPT !.fault = TRUE]
        ELSE IF free < m1.conn_length
        THEN Place(m1, free, conn)
        ELSE IF ~allocOK
        THEN [m2 EXCEPT !.conn_list = <<>>, !.list_alloc = FALSE,
                        !.conn_num = @ + 1]
        ELSE nopoll_ctx_register_conn(
                 [m2 EXCEPT !.conn_list =
                                ClearNew(Realloc(m1.conn_list, m2.conn_length),
                                         m2.conn_length),
                            !.list_alloc = TRUE],
                 conn, allocOK)

\* register(ctx, conn); allocOK tells whether nopoll_realloc, if called,
\* returns a block.
nopoll_ctx_register_conn(m, conn, allocOK) ==
    LET m1 == AssignId(m, conn)
        free == FindFree(m1, 0)
        m2 == [m1 EXCEPT !.conn_length = @ + GrowBy]
    IN  IF m1.conn_length > 0 /\ ~m1.list_alloc
        THEN \* the loop reads conn_list[0] through the NULL pointer
             [m1 EXCEPT !.fault = TRUE]
        ELSE IF free < m1.conn_length
        THEN Place(m1, free, conn)
        ELSE IF ~allocOK
        THEN \* ctx->conn_list = NULL; the error is logged; return
             [m2 EXCEPT !.conn_list = <<>>, !.list_alloc = FALSE]
        ELSE nopoll_ctx_register_conn(
                 [m2 EXCEPT !.conn_list =
                                ClearNew(Realloc(m1.conn_list, m2.conn_length),
                                         m2.conn_length),
                            !.list_alloc = TRUE],
                 conn, allocOK)

\* The application registers each connection it creates, once.
Register(conn, allocOK) ==
    /\ ~freed /\ ~fault
    /\ conn = nconn + 1
    /\ LET m == nopoll_ctx_register_conn(Mem, conn, allocOK)
       IN  /\ conn_id' = m.conn_id
           /\ conn_length' = m.conn_length
           /\ conn_list' = m.conn_list
           /\ list_alloc' = m.list_alloc
           /\ conn_num' = m.conn_num
           /\ id' = m.id
           /\ fault' = m.fault
           /\ tracked' = IF ~m.fault /\ m.list_alloc
                         THEN tracked \cup {conn} ELSE tracked
    /\ nconn' = conn
    /\ op' = Call("register", {})
    /\ visited' = <<>> /\ result' = NULL
    /\ UNCHANGED <<refs, freed, nunreg, holders, nfree>>
    /\ UNCHANGED stepwise

\* Register calls made with a connection that is already registered.
MaxReregs == 1

\* The application passes to register a connection it has registered
\* before and not unregistered: the function has no check against it.
Reregister(conn, allocOK) ==
    /\ ~freed /\ ~fault
    /\ conn \in tracked
    /\ nrereg < MaxReregs
    /\ LET m == nopoll_ctx_register_conn(Mem, conn, allocOK)
       IN  /\ conn_id' = m.conn_id
           /\ conn_length' = m.conn_length
           /\ conn_list' = m.conn_list
           /\ list_alloc' = m.list_alloc
           /\ conn_num' = m.conn_num
           /\ id' = m.id
           /\ fault' = m.fault
    /\ nrereg' = nrereg + 1
    /\ op' = Call("register", {})
    /\ visited' = <<>> /\ result' = NULL
    /\ UNCHANGED <<refs, freed, nconn, nunreg, tracked, holders, nfree, thr>>

----------------------------------------------------------------------------
\* nopoll_ctx_unregister_conn

RECURSIVE nopoll_ctx_unregister_conn(_, _, _)
\* unregister(ctx, conn), from the slot `iterator' on.
nopoll_ctx_unregister_conn(m, conn, iterator) ==
    IF iterator >= m.conn_length THEN m
    ELSE IF ~m.list_alloc \/ m.conn_list[iterator + 1] = NULL
    THEN \* ctx->conn_list[iterator]->id reads through a NULL pointer
         [m EXCEPT !.fault = TRUE]
    ELSE IF m.id[m.conn_list[iterator + 1]] = m.id[conn]
    THEN [m EXCEPT !.conn_list[iterator + 1] = NULL, !.conn_num = @ - 1]
    ELSE nopoll_ctx_unregister_conn(m, conn, iterator + 1)

\* Any connection object the application has, registered or not.
Unregister(conn) ==
    /\ ~freed /\ ~fault
    /\ conn <= nconn + 1
    /\ nunreg < MaxUnregs
    /\ nunreg' = nunreg + 1
    /\ LET m == nopoll_ctx_unregister_conn(Mem, conn, 0)
       IN  /\ conn_list' = m.conn_list
           /\ conn_num' = m.conn_num
           /\ fault' = m.fault
           /\ tracked' = IF m.fault THEN tracked ELSE tracked \ {conn}
    /\ op' = Call("unregister", {})
    /\ visited' = <<>> /\ result' = NULL
    /\ UNCHANGED <<refs, conn_id, conn_length, list_alloc, id, freed, nconn,
                   holders, nfree>>
    /\ UNCHANGED stepwise

\* The ids another context can have given: its counter starts like this one.
ForeignIds == InitialConnId..(MaxConns + 2)

\* Another context registers the connection Foreign and gives it an id.
RegisterElsewhere(n) ==
    /\ ~freed /\ ~fault
    /\ id[Foreign] = 0
    /\ id' = [id EXCEPT ![Foreign] = n]
    /\ UNCHANGED <<refs, conn_id, conn_length, conn_list, list_alloc, conn_num,
                   freed, fault, nconn, nunreg, op, visited, result, tracked,
                   holders, nfree>>
    /\ UNCHANGED stepwise

\* unregister(ctx, Foreign): the connection was never registered on ctx.
UnregisterForeign ==
    /\ ~freed /\ ~fault
    /\ nunreg < MaxUnregs
    /\ nunreg' = nunreg + 1
    /\ LET m == nopoll_ctx_unregister_conn(Mem, Foreign, 0)
       IN  /\ conn_list' = m.conn_list
           /\ conn_num' = m.conn_num
           /\ fault' = m.fault
    /\ op' = Call("unregister (foreign)", {})
    /\ visited' = <<>> /\ result' = NULL
    /\ UNCHANGED <<refs, conn_id, conn_length, list_alloc, id, freed, nconn,
                   tracked, holders, nfree>>
    /\ UNCHANGED stepwise

----------------------------------------------------------------------------
\* nopoll_ctx_conns

nopoll_ctx_conns == conn_num

----------------------------------------------------------------------------
\* nopoll_ctx_foreach_conn

\* A foreach handler is the set of connections it returns nopoll_true for.
Handlers == { {}, {c \in Conns : c % 2 = 0} }

Foreach(handler, conn) == conn \in handler

RECURSIVE ForeachNoStop(_, _, _, _)
\* A foreach that ignores what the handler returns.
ForeachNoStop(m, handler, iterator, seen) ==
    IF iterator >= m.conn_length
    THEN [visited |-> seen, result |-> NULL, fault |-> FALSE]
    ELSE IF ~m.list_alloc
    THEN [visited |-> seen, result |-> NULL, fault |-> TRUE]
    ELSE IF m.conn_list[iterator + 1] # NULL
    THEN ForeachNoStop(m, handler, iterator + 1,
                       Append(seen, m.conn_list[iterator + 1]))
    ELSE ForeachNoStop(m, handler, iterator + 1, seen)

RECURSIVE nopoll_ctx_foreach_conn(_, _, _, _)
\* foreach(ctx, handler, user_data) from the slot `iterator' on; seen are
\* the connections handed to the handler so far.
nopoll_ctx_foreach_conn(m, handler, iterator, seen) ==
    IF iterator >= m.conn_length
    THEN [visited |-> seen, result |-> NULL, fault |-> FALSE]
    ELSE IF ~m.list_alloc
    THEN \* ctx->conn_list[iterator] reads through the NULL pointer
         [visited |-> seen, result |-> NULL, fault |-> TRUE]
    ELSE IF m.conn_list[iterator + 1] # NULL
    THEN IF Foreach(handler, m.conn_list[iterator + 1])
         THEN [visited |-> Append(seen, m.conn_list[iterator + 1]),
               result |-> m.conn_list[iterator + 1], fault |-> FALSE]
         ELSE nopoll_ctx_foreach_conn(m, handler, iterator + 1,
                                      Append(seen, m.conn_list[iterator + 1]))
    ELSE nopoll_ctx_foreach_conn(m, handler, iterator + 1, seen)

ForeachConn(handler) ==
    /\ ~freed /\ ~fault
    /\ LET r == nopoll_ctx_foreach_conn(Mem, handler, 0, <<>>)
       IN  /\ visited' = r.visited
           /\ result' = r.result
           /\ fault' = r.fault
    /\ op' = Call("foreach", handler)
    /\ UNCHANGED <<refs, conn_id, conn_length, conn_list, list_alloc, conn_num,
                   id, freed, nconn, nunreg, tracked, holders, nfree>>
    /\ UNCHANGED stepwise

\* What a handler does to the registry before it returns nopoll_true.
Effects == {"none", "unregister", "register"}

\* The calls the handler makes on ctx while it is given connection conn:
\* it unregisters conn, or registers the new connection fresh.
Reenter(m, effect, conn, fresh, allocOK) ==
    CASE effect = "unregister" -> nopoll_ctx_unregister_conn(m, conn, 0)
      [] effect = "register" -> nopoll_ctx_register_conn(m, fresh, allocOK)
      [] OTHER -> m

RECURSIVE foreach_reentrant(_, _, _, _, _, _, _)
\* nopoll_ctx_foreach_conn with a handler that calls back into the registry.
\* After the handler returned nopoll_true the function reads
\* ctx->conn_list[iterator] again for its result.
foreach_reentrant(m, handler, effect, fresh, allocOK, iterator, seen) ==
    IF iterator >= m.conn_length
    THEN [m |-> m, visited |-> seen, result |-> NULL, acted |-> FALSE]
    ELSE IF ~m.list_alloc
    THEN [m |-> [m EXCEPT !.fault = TRUE], visited |-> seen,
          result |-> NULL, acted |-> FALSE]
    ELSE IF m.conn_list[iterator + 1] # NULL
    THEN IF Foreach(handler, m.conn_list[iterator + 1])
         THEN LET m1 == Reenter(m, effect, m.conn_list[iterator + 1], fresh,
                                allocOK)
                  lost == ~m1.fault /\ ~m1.list_alloc
              IN  [m |-> [m1 EXCEPT !.fault = @ \/ lost],
                   visited |-> Append(seen, m.conn_list[iterator + 1]),
                   result |-> IF m1.fault \/ lost THEN NULL
                              ELSE m1.conn_list[iterator + 1],
                   acted |-> effect # "none"]
         ELSE foreach_reentrant(m, handler, effect, fresh, allocOK,
                                iterator + 1,
                                Append(seen, m.conn_list[iterator + 1]))
    ELSE foreach_reentrant(m, handler, effect, fresh, allocOK, iterator + 1,
                           seen)

ForeachReentrant(handler, effect, allocOK) ==
    /\ ~freed /\ ~fault
    /\ effect = "register" => nconn < MaxConns
    /\ effect = "unregister" => nunreg < MaxUnregs
    /\ LET r == foreach_reentrant(Mem, handler, effect, nconn + 1, allocOK,
                                  0, <<>>)
           registered == r.acted /\ effect = "register"
           unregistered == r.acted /\ effect = "unregister"
       IN  /\ conn_id' = r.m.conn_id
           /\ conn_length' = r.m.conn_length
           /\ conn_list' = r.m.conn_list
           /\ list_alloc' = r.m.list_alloc
           /\ conn_num' = r.m.conn_num
           /\ id' = r.m.id
           /\ fault' = r.m.fault
           /\ visited' = r.visited
           /\ result' = r.result
           /\ nconn' = IF registered THEN nconn + 1 ELSE nconn
           /\ nunreg' = IF unregistered THEN nunreg + 1 ELSE nunreg
           /\ tracked' = IF r.m.fault THEN tracked
                         ELSE IF registered THEN tracked \cup {nconn + 1}
                         ELSE IF unregistered
                         THEN tracked \ {r.visited[Len(r.visited)]}
                         ELSE tracked
    /\ op' = Call("foreach (reentrant)", handler)
    /\ UNCHANGED <<refs, freed, holders, nfree>>
    /\ UNCHANGED stepwise

----------------------------------------------------------------------------
\* nopoll_ctx_register_conn, one statement at a time.  The mutex of the
\* function is a comment ("acquire mutex here"): nothing keeps the
\* statements of two calls apart.  ctx->conn_id ++ and ctx->conn_num++ are
\* a load and a store; the growth (conn_length += 10 with the realloc) and
\* the loop that clears the new positions are taken as one step each.

\* What a read of an entry gives: an entry never written reads as anything,
\* junk telling whether that is zero.
ReadEntry(entry, junk) == IF entry = Uninit /\ junk THEN NULL ELSE entry

\* The statement thread record th is at, run on m: the memory and the
\* thread after it.  allocOK tells whether nopoll_realloc succeeds.
RegisterStatement(m, th, allocOK, junk) ==
    CASE th.pc = "assign" ->
           \* conn->id = ctx->conn_id
           [m |-> [m EXCEPT !.id[th.conn] = m.conn_id],
            th |-> [th EXCEPT !.pc = "id_load", !.calls = @ + 1]]
      [] th.pc = "id_load" ->
           [m |-> m, th |-> [th EXCEPT !.pc = "id_store", !.tmp = m.conn_id]]
      [] th.pc = "id_store" ->
           \* ctx->conn_id ++ ends; iterator = 0
           [m |-> [m EXCEPT !.conn_id = NextConnId(th.tmp)],
            th |-> [th EXCEPT !.pc = "scan", !.iterator = 0]]
      [] th.pc = "scan" ->
           IF th.iterator >= m.conn_length
           THEN [m |-> m, th |-> [th EXCEPT !.pc = "grow"]]
           ELSE IF ~m.list_alloc
           THEN [m |-> [m EXCEPT !.fault = TRUE], th |-> th]
           ELSE IF ReadEntry(m.conn_list[th.iterator + 1], junk) = NULL
           THEN [m |-> m, th |-> [th EXCEPT !.pc = "store"]]
           ELSE [m |-> m, th |-> [th EXCEPT !.iterator = @ + 1]]
      [] th.pc = "store" ->
           \* ctx->conn_list[iterator] = conn
           IF ~m.list_alloc
           THEN [m |-> [m EXCEPT !.fault = TRUE], th |-> th]
           ELSE [m |-> [m EXCEPT !.conn_list[th.iterator + 1] = th.conn],
                 th |-> [th EXCEPT !.pc = "num_load"]]
      [] th.pc = "num_load" ->
           [m |-> m, th |-> [th EXCEPT !.pc = "num_store", !.tmp = m.conn_num]]
      [] th.pc = "num_store" ->
           \* ctx->conn_num++ ends; return
           [m |-> [m EXCEPT !.conn_num = th.tmp + 1],
            th |-> [th EXCEPT !.pc = "done"]]
      [] th.pc = "grow" ->
           IF ~allocOK
           THEN [m |-> [m EXCEPT !.conn_length = @ + GrowBy,
                                 !.conn_list = <<>>, !.list_alloc = FALSE],
                 th |-> [th EXCEPT !.pc = "done", !.grows = @ + 1,
                                   !.oom = TRUE]]
           ELSE [m |-> [m EXCEPT !.conn_length = @ + GrowBy,
                                 !.conn_list =
                                     Realloc(m.conn_list, m.conn_length + GrowBy),
                                 !.list_alloc = TRUE],
                 th |-> [th EXCEPT !.pc = "clear", !.grows = @ + 1]]
      [] th.pc = "clear" ->
           \* the new positions are cleared, then register calls itself
           IF ~m.list_alloc
           THEN [m |-> [m EXCEPT !.fault = TRUE], th |-> th]
           ELSE [m |-> [m EXCEPT !.conn_list =
                                     ClearNew(m.conn_list, m.conn_length)],
                 th |-> [th EXCEPT !.pc = "assign"]]

RegisterPcs == {"assign", "id_load", "id_store", "scan", "store", "num_load",
                "num_store", "grow", "clear"}

NotRunning(t) == thr[t].pc \in {"idle", "done"}

\* A thread enters register with connection conn.
Enter(conn) ==
    [Idle EXCEPT !.pc = "assign", !.conn = conn, !.num0 = conn_num]

\* Two threads call register at the same time, each with a new connection.
StartPair ==
    /\ ~freed /\ ~fault
    /\ \A t \in Threads : thr[t].pc = "idle"
    /\ nconn + 2 <= MaxConns
    /\ thr' = [t \in Threads |-> Enter(nconn + t)]
    /\ nconn' = nconn + 2
    /\ tracked' = tracked \cup {nconn + 1, nconn + 2}
    /\ op' = Call("register", {})
    /\ visited' = <<>> /\ result' = NULL
    /\ UNCHANGED <<refs, conn_id, conn_length, conn_list, list_alloc, conn_num,
                   id, freed, fault, nunreg, holders, nfree, nrereg>>

\* One thread calls register with a new connection, the other is in no call.
StartSolo ==
    /\ ~freed /\ ~fault
    /\ NotRunning(1) /\ thr[2].pc = "idle"
    /\ nconn + 1 <= MaxConns
    /\ thr' = [thr EXCEPT ![1] = Enter(nconn + 1)]
    /\ nconn' = nconn + 1
    /\ tracked' = tracked \cup {nconn + 1}
    /\ op' = Call("register", {})
    /\ visited' = <<>> /\ result' = NULL
    /\ UNCHANGED <<refs, conn_id, conn_length, conn_list, list_alloc, conn_num,
                   id, freed, fault, nunreg, holders, nfree, nrereg>>

\* Thread t runs its next statement of register.
RegisterThread(t) ==
    /\ ~fault
    /\ thr[t].pc \in RegisterPcs
    /\ \E allocOK \in BOOLEAN, junk \in BOOLEAN :
         LET r == RegisterStatement(Mem, thr[t], allocOK, junk)
         IN  /\ conn_id' = r.m.conn_id
             /\ conn_length' = r.m.conn_length
             /\ conn_list' = r.m.conn_list
             /\ list_alloc' = r.m.list_alloc
             /\ conn_num' = r.m.conn_num
             /\ id' = r.m.id
             /\ fault' = r.m.fault
             /\ thr' = [thr EXCEPT ![t] = r.th]
    /\ UNCHANGED <<refs, freed, nconn, nunreg, op, visited, result, tracked,
                   holders, nfree, nrereg>>

\* The calls made before the threads start.
Sequential == \A t \in Threads : thr[t].pc = "idle"

NextRace ==
    \/ \E conn \in Conns, allocOK \in BOOLEAN :
         Sequential /\ Register(conn, allocOK)
    \/ StartPair
    \/ \E t \in Threads : RegisterThread(t)

SpecRace == Init /\ [][NextRace]_vars

NextSolo ==
    \/ StartSolo
    \/ RegisterThread(1)

\* A thread that is in a call goes on running.
SpecSolo == Init /\ [][NextSolo]_vars /\ WF_vars(RegisterThread(1))

----------------------------------------------------------------------------
\* nopoll_ctx_ref and nopoll_ctx_unref, one statement at a time, by threads
\* that each hold a reference.  Here too the mutex is a comment.  ctx->refs++
\* and ctx->refs-- are a load and a store, and the test that follows the
\* decrement reads ctx->refs again.  The three statements that release the
\* storage are one step.

\* The part of the context the two functions work on.
Life == [refs |-> refs, conn_length |-> conn_length, conn_list |-> conn_list,
         list_alloc |-> list_alloc, freed |-> freed, nfree |-> nfree,
         fault |-> fault]

\* What a read of ctx->refs gives: seen, if the context was freed.
ReadRefs(l, seen) == IF l.freed THEN seen ELSE l.refs

\* A statement that runs on a freed context took place.
Touch(l, th) == [th EXCEPT !.uaf = @ \/ l.freed]

\* The statement thread record th is at, run on l.  An access to the freed
\* context faults when trap holds and otherwise finds the value seen there.
RefStatement(l, th, seen, trap) ==
    IF l.freed /\ trap
    THEN [l |-> [l EXCEPT !.fault = TRUE], th |-> Touch(l, th)]
    ELSE
    CASE th.pc = "ref_load" ->
           [l |-> l,
            th |-> [Touch(l, th) EXCEPT !.pc = "ref_store",
                                        !.tmp = ReadRefs(l, seen)]]
      [] th.pc = "ref_store" ->
           [l |-> [l EXCEPT !.refs = RefsAfterRef(th.tmp)],
            th |-> [Touch(l, th) EXCEPT !.pc = "done"]]
      [] th.pc = "unref_load" ->
           [l |-> l,
            th |-> [Touch(l, th) EXCEPT !.pc = "unref_store",
                                        !.tmp = ReadRefs(l, seen)]]
      [] th.pc = "unref_store" ->
           [l |-> [l EXCEPT !.refs = RefsAfterUnref(th.tmp)],
            th |-> [Touch(l, th) EXCEPT !.pc = "unref_test"]]
      [] th.pc = "unref_test" ->
           \* if (ctx->refs != 0) return;
           [l |-> l,
            th |-> [Touch(l, th) EXCEPT
                      !.pc = IF UnrefReleases(ReadRefs(l, seen))
                             THEN "free" ELSE "done"]]
      [] th.pc = "free" ->
           \* nopoll_free (ctx->conn_list); ctx->conn_length = 0;
           \* nopoll_free (ctx)
           [l |-> [l EXCEPT !.conn_list = <<>>, !.list_alloc = FALSE,
                            !.conn_length = 0, !.freed = TRUE,
                            !.nfree = @ + 1],
            th |-> [Touch(l, th) EXCEPT !.pc = "done"]]

RefPcs == {"ref_load", "ref_store", "unref_load", "unref_store",
           "unref_test", "free"}

\* The values a read of freed memory can give.
Seen == 0..MaxRefs

\* The thread that made the context takes a reference for the other one:
\* from here on each thread holds one.
ShareRef ==
    /\ ~freed /\ ~fault
    /\ \A t \in Threads : thr[t] = Idle
    /\ refs' = RefsAfterRef(refs)
    /\ holders' = holders + 1
    /\ thr' = [t \in Threads |-> [Idle EXCEPT !.own = 1]]
    /\ op' = Call("ref", {})
    /\ visited' = <<>> /\ result' = NULL
    /\ UNCHANGED <<conn_id, conn_length, conn_list, list_alloc, conn_num, id,
                   freed, fault, nconn, nunreg, tracked, nfree, nrereg>>

\* Thread t, holding a reference, calls nopoll_ctx_ref.
CallRef(t) ==
    /\ ~fault
    /\ NotRunning(t) /\ thr[t].own > 0 /\ thr[t].calls < MaxRefs
    /\ thr' = [thr EXCEPT ![t].pc = "ref_load", ![t].calls = @ + 1,
                          ![t].own = @ + 1]
    /\ holders' = holders + 1
    /\ op' = Call("ref", {})
    /\ visited' = <<>> /\ result' = NULL
    /\ UNCHANGED <<refs, conn_id, conn_length, conn_list, list_alloc, conn_num,
                   id, freed, fault, nconn, nunreg, tracked, nfree, nrereg>>

\* Thread t, holding a reference, calls nopoll_ctx_unref.
CallUnref(t) ==
    /\ ~fault
    /\ NotRunning(t) /\ thr[t].own > 0 /\ thr[t].calls < MaxRefs
    /\ thr' = [thr EXCEPT ![t].pc = "unref_load", ![t].calls = @ + 1,
                          ![t].own = @ - 1]
    /\ holders' = holders - 1
    /\ op' = Call("unref", {})
    /\ visited' = <<>> /\ result' = NULL
    /\ UNCHANGED <<refs, conn_id, conn_length, conn_list, list_alloc, conn_num,
                   id, freed, fault, nconn, nunreg, tracked, nfree, nrereg>>

\* Thread t runs its next statement of nopoll_ctx_ref or nopoll_ctx_unref.
RefThread(t) ==
    /\ ~fault
    /\ thr[t].pc \in RefPcs
    /\ \E seen \in Seen, trap \in BOOLEAN :
         LET r == RefStatement(Life, thr[t], seen, trap)
         IN  /\ refs' = r.l.refs
             /\ conn_length' = r.l.conn_length
             /\ conn_list' = r.l.conn_list
             /\ list_alloc' = r.l.list_alloc
             /\ freed' = r.l.freed
             /\ nfree' = r.l.nfree
             /\ fault' = r.l.fault
             /\ thr' = [thr EXCEPT ![t] = r.th]
    /\ UNCHANGED <<conn_id, conn_num, id, nconn, nunreg, op, visited, result,
                   tracked, holders, nrereg>>

NextRefRace ==
    \/ \E conn \in Conns, allocOK \in BOOLEAN :
         Sequential /\ Register(conn, allocOK)
    \/ ShareRef
    \/ \E t \in Threads : CallRef(t)
    \/ \E t \in Threads : CallUnref(t)
    \/ \E t \in Threads : RefThread(t)

SpecRefRace == Init /\ [][NextRefRace]_vars

----------------------------------------------------------------------------
\* nopoll_ctx_unref and nopoll_ctx_ref called without a reference: with
\* NULL, and with a context that the last unref has freed, which is the
\* only context whose count is zero.  The functions read and write the
\* freed object: the access faults when trap holds and otherwise finds the
\* value seen in ctx->refs.

\* nopoll_ctx_unref (NULL): "if (ctx == NULL) return;"
UnrefNull ==
    /\ ~fault
    /\ op' = Call("unref (NULL)", {})
    /\ visited' = <<>> /\ result' = NULL
    /\ UNCHANGED <<refs, conn_id, conn_length, conn_list, list_alloc, conn_num,
                   id, freed, fault, nconn, nunreg, tracked, holders, nfree>>
    /\ UNCHANGED stepwise

\* nopoll_ctx_unref on the freed context.
UnrefStale(seen, trap) ==
    /\ freed /\ ~fault
    /\ thr[1].calls < MaxRefs
    /\ thr' = [thr EXCEPT ![1].calls = @ + 1]
    /\ op' = Call("unref", {})
    /\ visited' = <<>> /\ result' = NULL
    /\ IF trap
       THEN /\ fault' = TRUE
            /\ UNCHANGED <<refs, conn_list, list_alloc, conn_length, nfree>>
       ELSE /\ refs' = RefsAfterUnref(seen)
            /\ fault' = fault
            /\ IF UnrefReleases(refs')
               THEN /\ conn_list' = <<>>
                    /\ list_alloc' = FALSE
                    /\ conn_length' = 0
                    /\ nfree' = nfree + 1
               ELSE UNCHANGED <<conn_list, list_alloc, conn_length, nfree>>
    /\ UNCHANGED <<conn_id, conn_num, id, freed, nconn, nunreg, tracked,
                   holders, nrereg>>

\* nopoll_ctx_ref on the freed context.
RefStale(seen, trap) ==
    /\ freed /\ ~fault
    /\ thr[1].calls < MaxRefs
    /\ thr' = [thr EXCEPT ![1].calls = @ + 1]
    /\ op' = Call("ref", {})
    /\ visited' = <<>> /\ result' = NULL
    /\ IF trap
       THEN fault' = TRUE /\ refs' = refs
       ELSE fault' = fault /\ refs' = RefsAfterRef(seen)
    /\ UNCHANGED <<conn_id, conn_length, conn_list, list_alloc, conn_num, id,
                   freed, nconn, nunreg, tracked, holders, nfree, nrereg>>

NextStale ==
    \/ nopoll_ctx_ref
    \/ nopoll_ctx_unref
    \/ \E conn \in Conns, allocOK \in BOOLEAN : Register(conn, allocOK)
    \/ UnrefNull
    \/ \E seen \in Seen, trap \in BOOLEAN : UnrefStale(seen, trap)
    \/ \E seen \in Seen, trap \in BOOLEAN : RefStale(seen, trap)

SpecStale == Init /\ [][NextStale]_vars

----------------------------------------------------------------------------

\* Every call below is made by a holder of a reference, on a context that
\* is alive: none follows the unref that freed it.

\* The registry calls of an application that holds the context.
NextRegistry ==
    \/ \E conn \in Conns, allocOK \in BOOLEAN : Register(conn, allocOK)
    \/ \E conn \in Conns : Unregister(conn)
    \/ \E handler \in Handlers : ForeachConn(handler)

\* The reference counting calls, on a context that connections are being
\* registered on.
NextLife ==
    \/ nopoll_ctx_ref
    \/ nopoll_ctx_unref
    \/ \E conn \in Conns, allocOK \in BOOLEAN : Register(conn, allocOK)
    \/ \E handler \in Handlers : ForeachConn(handler)

\* The registry when a connection can be registered again.
NextDup ==
    \/ \E conn \in Conns, allocOK \in BOOLEAN : Register(conn, allocOK)
    \/ \E conn \in Conns, allocOK \in BOOLEAN : Reregister(conn, allocOK)
    \/ \E conn \in Conns : Unregister(conn)

\* Every function of the module, foreach with the handler that never stops.
NextCapacity ==
    \/ nopoll_ctx_ref
    \/ nopoll_ctx_unref
    \/ \E conn \in Conns, allocOK \in BOOLEAN : Register(conn, allocOK)
    \/ \E conn \in Conns : Unregister(conn)
    \/ ForeachConn({})

\* The registry and a connection of another context.
NextForeign ==
    \/ \E conn \in Conns, allocOK \in BOOLEAN : Register(conn, allocOK)
    \/ \E conn \in Conns : Unregister(conn)
    \/ \E n \in ForeignIds : RegisterElsewhere(n)
    \/ UnregisterForeign

\* The registry with handlers that call back into it.
NextReentrant ==
    \/ \E conn \in Conns, allocOK \in BOOLEAN : Register(conn, allocOK)
    \/ \E conn \in Conns : Unregister(conn)
    \/ \E handler \in Handlers, effect \in Effects, allocOK \in BOOLEAN :
         ForeachReentrant(handler, effect, allocOK)

Next == NextRegistry \/ NextLife

Spec == Init /\ [][Next]_vars

SpecRegistry == Init /\ [][NextRegistry]_vars

SpecLife == Init /\ [][NextLife]_vars
SpecDup == Init /\ [][NextDup]_vars
SpecCapacity == Init /\ [][NextCapacity]_vars
SpecForeign == Init /\ [][NextForeign]_vars
SpecReentrant == Init /\ [][NextReentrant]_vars

TypeOK ==
    /\ refs \in -1..((MaxRefs + 1) * Cardinality(Threads))
    /\ conn_length \in Nat
    /\ conn_list \in Seq(Conns \cup {NULL, Uninit})
    /\ \A t \in Threads : thr[t].pc \in RegisterPcs \cup RefPcs \cup {"idle", "done"}
    /\ nconn \in 0..MaxConns
    /\ nunreg \in 0..MaxUnregs
    /\ nrereg \in 0..MaxReregs

----------------------------------------------------------------------------
\* Notions the properties below are stated with.

\* The slots of the registry, as indexes of conn_list.
Slots == 1..Len(conn_list)

\* The connections the registry holds.
Held == {conn_list[i] : i \in {j \in Slots : conn_list[j] # NULL}}

Tombstones == {i \in Slots : conn_list[i] = NULL}

\* The pointer to the table was lost: capacity without storage.
ListLost == ~list_alloc /\ conn_length > 0

\* The live connections in slot order.
LiveInOrder == SelectSeq(conn_list, LAMBDA c : c # NULL)

\* This step is a call of register, of unregister.
RegisterStep == nconn' = nconn + 1
UnregisterStep == nunreg' = nunreg + 1

Lowest(S) == CHOOSE i \in S : \A j \in S : i <= j

----------------------------------------------------------------------------
\* C1.  unregister(ctx, conn) of a connection registered in ctx completes
\* without fault in every registry state, also with tombstones below the
\* slot of conn: that slot alone becomes a tombstone and the live-count
\* drops by one.
C1_UnregisterAnyOrder ==
    [][\A c \in Conns :
         (UnregisterStep /\ Unregister(c) /\ list_alloc /\ c \in Held) =>
            /\ ~fault'
            /\ \E i \in Slots :
                 /\ conn_list[i] = c
                 /\ conn_list' = [conn_list EXCEPT ![i] = NULL]
            /\ conn_num' = conn_num - 1]_vars

\* C2.  After any sequence of register and unregister calls that met no
\* allocation failure, a foreach whose handler never stops hands each
\* connection registered and not since unregistered to the handler exactly
\* once, and no other, in ascending slot order, and the count is their
\* number.
C2_ForeachVisitsSurvivors ==
    ~ListLost =>
        LET r == nopoll_ctx_foreach_conn(Mem, {}, 0, <<>>)
        IN  /\ ~fault /\ ~r.fault
            /\ r.result = NULL
            /\ {r.visited[k] : k \in 1..Len(r.visited)} = tracked
            /\ Len(r.visited) = Cardinality(tracked)
            /\ r.visited = LiveInOrder
            /\ nopoll_ctx_conns = Cardinality(tracked)

\* C3.  In every state the live-count equals the number of slots that hold
\* a connection.
C3_CountIsLiveSlots ==
    nopoll_ctx_conns = Cardinality(Slots \ Tombstones)

\* C4.  Every register call gives the connection the id the counter held
\* when the call began and leaves the counter one higher, whether or not the
\* table grows.
C4_IdIsCounterAtCall ==
    [][RegisterStep =>
          /\ id'[nconn'] = conn_id
          /\ conn_id' = conn_id + 1]_vars

\* C5.  The ids register hands out are pairwise distinct and strictly
\* increasing in registration order, also past unregistrations, every one
\* is below the counter, and the counter never decreases.
C5_IdsNeverReused ==
    [][/\ conn_id' >= conn_id
       /\ \A c \in 1..nconn' : id'[c] >= InitialConnId /\ id'[c] < conn_id'
       /\ \A c, d \in 1..nconn' : c < d => id'[c] < id'[d]
       /\ \A c \in 1..nconn : id'[c] = id[c]]_vars

\* A connection is registered into the slot an unregistered one left, with
\* a higher id than the connection that left.
C5_Witness ==
    /\ op.name = "register" /\ ~fault /\ nunreg >= 1
    /\ nconn >= 3
    /\ \E c \in 1..(nconn - 1) : c \notin Held /\ id[c] >= 1 /\ id[c] < id[nconn]
    /\ nconn \in Held

\* C6.  unregister(ctx, conn) with a connection whose id matches no slot
\* completes without fault and changes nothing of the registry, in every
\* registry state: empty, full or with tombstones.
C6_UnregisterUnknownNoOp ==
    [][\A c \in Conns :
         (/\ UnregisterStep /\ Unregister(c) /\ ~ListLost
          /\ \A d \in Held : id[d] # id[c]) =>
            /\ ~fault'
            /\ UNCHANGED <<conn_list, list_alloc, conn_num, conn_length,
                           conn_id>>]_vars

\* C7.  A register call that finds no tombstone and whose allocation
\* succeeds grows the capacity by exactly 10, keeps every connection in its
\* slot, makes the added slots tombstones but one, which holds the new
\* connection, and raises the live-count by one; with no unregister call in
\* between, every connection registered so far is in the registry.
C7_GrowthKeepsAll ==
    [][(/\ RegisterStep /\ ~ListLost /\ Tombstones = {}
        /\ list_alloc') =>
          /\ ~fault'
          /\ conn_length' = conn_length + 10
          /\ Len(conn_list') = conn_length'
          /\ \A i \in Slots : conn_list'[i] = conn_list[i]
          /\ \E j \in (Len(conn_list) + 1)..Len(conn_list') :
               /\ conn_list'[j] = nconn'
               /\ \A k \in (Len(conn_list) + 1)..Len(conn_list') :
                    k # j => conn_list'[k] = NULL
          /\ conn_num' = conn_num + 1
          /\ (nunreg = 0 /\ Held = 1..nconn) =>
                {conn_list'[i] : i \in 1..Len(conn_list')} \ {NULL} = 1..nconn']_vars

\* Eleven registrations on a fresh context: the table grew twice and holds
\* all eleven, the first ten where they were.
C7_Witness ==
    /\ op.name = "register" /\ ~fault
    /\ nconn = 11 /\ nunreg = 0
    /\ conn_length = 20 /\ Len(conn_list) = 20
    /\ \A c \in 1..11 : conn_list[c] = c
    /\ conn_num = 11

\* C8.  A register call on a registry with a tombstone puts the connection
\* in the lowest tombstone slot and raises the live-count by one; the
\* capacity and every other slot stay as they were.
C8_ReusesFirstTombstone ==
    [][(RegisterStep /\ list_alloc /\ Tombstones # {}) =>
          /\ ~fault'
          /\ conn_list' = [conn_list EXCEPT ![Lowest(Tombstones)] = nconn']
          /\ conn_num' = conn_num + 1
          /\ conn_length' = conn_length
          /\ list_alloc']_vars

\* The new connection sits in slot 0, which an unregistered connection
\* left, below live connections and above other tombstones.
C8_Witness ==
    /\ op.name = "register" /\ ~fault /\ nunreg >= 1
    /\ nconn >= 3
    /\ conn_list[1] = nconn
    /\ conn_list[2] # NULL
    /\ Tombstones # {}

\* The connections a handler, given as the set it answers nopoll_true for,
\* stops at: positions in the live connections taken in slot order.
StopsAt(handler) ==
    {k \in 1..Len(LiveInOrder) : LiveInOrder[k] \in handler}

C10_FreedAtLastUnref ==
    [][/\ (nfree' # nfree \/ freed' # freed) =>
             /\ op'.name = "unref" /\ refs = 1 /\ refs' = 0
             /\ freed' /\ nfree' = nfree + 1
             /\ ~list_alloc' /\ conn_length' = 0
       /\ (op'.name = "unref" /\ refs = 1 /\ refs' # refs) => freed'
       /\ freed' <=> holders' = 0
       /\ nfree' <= 1]_vars

\* A context that connections were registered on was released by its last
\* holder: that unref freed it and its table, once.
C10_Witness ==
    /\ freed /\ nfree = 1 /\ holders = 0 /\ refs = 0
    /\ op.name = "unref"
    /\ nconn >= 2 /\ conn_num >= 2
    /\ ~list_alloc /\ conn_length = 0

----------------------------------------------------------------------------
\* Two threads in register at once.

\* The slots that hold connection c.
SlotsOf(c) == {i \in Slots : conn_list[i] = c}

\* Both threads came back from register and neither was refused memory.
BothRegistered ==
    /\ ~fault
    /\ \A t \in Threads : thr[t].pc = "done" /\ ~thr[t].oom

\* C11.  When two threads register two different connections at the same
\* time, whatever the interleaving of their statements, the two connections
\* end with different ids, each in a slot of its own, and the live count is
\* two more than when the calls began.
C11_ConcurrentRegister ==
    BothRegistered =>
        /\ id[thr[1].conn] # id[thr[2].conn]
        /\ \A t \in Threads : Cardinality(SlotsOf(thr[t].conn)) = 1
        /\ conn_num = thr[1].num0 + 2

----------------------------------------------------------------------------
\* Two threads in nopoll_ctx_ref and nopoll_ctx_unref at once.

\* No call is in progress.
Quiet == ~fault /\ \A t \in Threads : NotRunning(t)

\* C12.  The updates of the reference count are atomic and the decrement to
\* zero with the free is indivisible: whatever the interleaving of the ref
\* and unref calls of threads that each hold a reference, the count is the
\* number of references held, the context is freed exactly once, when none
\* is held, and no thread touches the context after it was freed.
C12_AtomicRefcount ==
    /\ nfree <= 1
    /\ \A t \in Threads : ~thr[t].uaf
    /\ Quiet => /\ ~freed => refs = holders
                /\ freed <=> holders = 0

----------------------------------------------------------------------------
\* The growth of the registry is refused memory.

\* This step is a register call whose realloc failed: the capacity was
\* raised and the table pointer is NULL.
GrowthRefused == RegisterStep /\ conn_length' # conn_length /\ ~list_alloc'

\* C13.  When the allocation that grows the registry fails, register
\* returns without a fault, the connection it was given is in no slot and
\* the live count is not incremented.
C13_RefusedGrowthNotTracked ==
    [][GrowthRefused =>
          /\ ~fault'
          /\ nconn' \notin {conn_list'[i] : i \in 1..Len(conn_list')}
          /\ conn_num' = conn_num]_vars

\* The registry was full with GrowBy connections and the growth for the
\* next one was refused.
C13_Witness ==
    /\ op.name = "register" /\ ~fault
    /\ ~list_alloc /\ conn_length = 2 * GrowBy
    /\ nconn = GrowBy + 1 /\ conn_num = GrowBy
    /\ nconn \notin Held

----------------------------------------------------------------------------
\* One slot for each registered connection.

\* C14.  Each connection that is registered and not unregistered is in
\* exactly one slot, each slot that is in use holds such a connection, and
\* no two slots hold the same connection, also after a connection was
\* passed to register more than once.
C14_OneSlotEach ==
    (~fault /\ ~ListLost) =>
        /\ \A c \in tracked : Cardinality(SlotsOf(c)) = 1
        /\ Held \subseteq tracked
        /\ \A i, j \in Slots :
               (conn_list[i] # NULL /\ conn_list[i] = conn_list[j]) => i = j

----------------------------------------------------------------------------
\* The capacity of the registry.

\* C15.  While the context is alive the capacity conn_length is a multiple
\* of 10; it is 0 at first, never decreases and changes only by +10 in a
\* register call: unregister, foreach, ref and an unref that is not the last
\* leave it as it is.
C15_CapacitySteps ==
    /\ conn_length = 0
    /\ [](~freed => conn_length % GrowBy = 0)
    /\ [][~freed' =>
            \/ conn_length' = conn_length
            \/ /\ op'.name = "register" /\ RegisterStep
               /\ conn_length' = conn_length + GrowBy]_vars

\* The context is alive, the table has grown twice and calls of the other
\* functions followed the growth.
C15_Witness ==
    /\ ~freed /\ ~fault
    /\ conn_length = 2 * GrowBy /\ list_alloc
    /\ op.name \in {"unregister", "foreach", "ref", "unref"}

----------------------------------------------------------------------------
\* A release too many.

\* C16.  nopoll_ctx_unref called with NULL, or with a context whose count
\* is already zero, does nothing: the count, the registry and the freed
\* status stay as they are, nothing is freed again and nothing faults.
C16_ReleaseAtZeroNoOp ==
    [][(\/ op'.name = "unref (NULL)"
        \/ op'.name = "unref" /\ refs = 0) =>
           UNCHANGED <<refs, conn_list, conn_length, list_alloc, conn_num,
                       freed, nfree, fault>>]_vars

----------------------------------------------------------------------------
\* The recursion of register.

\* C17.  Every call of register ends, after at most one growth of the table
\* and at most one call of itself: the call it makes after a growth finds
\* an empty slot among the new positions.
C17_RegisterTerminates ==
    /\ [](thr[1].calls <= 2 /\ thr[1].grows <= 1)
    /\ (thr[1].pc \in RegisterPcs) ~> (thr[1].pc = "done" \/ fault)

\* A call that found the table full has grown it, called itself once and
\* returned with the connection placed in the first new slot.
C17_Witness ==
    /\ thr[1].pc = "done" /\ ~fault
    /\ thr[1].calls = 2 /\ thr[1].grows = 1
    /\ nconn = GrowBy + 1
    /\ conn_length = 2 * GrowBy /\ conn_list[GrowBy + 1] = nconn

----------------------------------------------------------------------------
\* Unregistering a connection of another context.

\* C18.  unregister called with a connection that was never registered on
\* this context removes nothing, whatever the id that connection carries:
\* every slot and the live count stay as they are.
C18_ForeignRemovesNothing ==
    [][(op'.name = "unregister (foreign)" /\ ~fault') =>
           conn_list' = conn_list /\ conn_num' = conn_num]_vars

----------------------------------------------------------------------------
\* What a refused growth leaves behind.

\* This step is a register call that returned without counting the
\* connection: a failed registration.
RegisterFailed == RegisterStep /\ ~fault' /\ conn_num' = conn_num

\* C19.  A register call that fails because the growth was refused memory
\* leaves the registry as it was: the table with every connection in its
\* slot, the capacity and the live count.
C19_RefusedGrowthKeepsRegistry ==
    [][RegisterFailed =>
          /\ conn_list' = conn_list /\ list_alloc' = list_alloc
          /\ conn_length' = conn_length]_vars

----------------------------------------------------------------------------
\* A handler that changes the registry it is iterating.

\* The handler of the last foreach returned nopoll_true for the connection
\* it was given last.
Stopped ==
    visited # <<>> /\ Foreach(op.handler, visited[Len(visited)])

\* C20.  foreach returns a connection exactly when a handler call returned
\* nopoll_true, and it returns the connection that call was given, also
\* when the handler has unregistered that connection or registered another
\* one before it returned.
C20_ReentrantResult ==
    (op.name = "foreach (reentrant)" /\ ~fault) =>
        /\ result # NULL <=> Stopped
        /\ Stopped => result = visited[Len(visited)]

====
